---------------------------- MODULE Spec2Model ----------------------------
(* A model of src/index.ts: the PatreonEvents poller.                      *)
(*                                                                         *)
(* One PatreonEvents object lives in one Node.js process.  JavaScript runs *)
(* one callback at a time, so everything between two awaits is one atomic  *)
(* step.  checkForUpdates has a single await (the fetch), so a tick is two *)
(* steps: the start of its fetch and the completion of its fetch together  *)
(* with the reconciliation, the bookkeeping and the save that follow it.   *)
EXTENDS Integers, Sequences, FiniteSets, TLC

(***************************************************************************)
(* Value domains                                                           *)
(***************************************************************************)
Ids == {"A", "B"}                       \* member ids (MembershipData.id)
Discords == {"D1", "D2"}                \* Discord user ids
Null == "null"                          \* JavaScript null
Undefined == "undefined"                \* JavaScript undefined / absent key
Statuses == {"active_patron", "declined_patron", "former_patron", "none"}


\* MembershipData, reduced to the three fields the diffing reads.
Member(id, status, discordId) ==
    [id |-> id, status |-> status, discordId |-> discordId]

Members == [id : Ids, status : Statuses, discordId : Discords \cup {Null}]

\* A member of the API response without an id: line 284 copies member.id,
\* which is undefined, and nothing checks it.
MalformedMembers ==
    [id : {Undefined}, status : Statuses, discordId : Discords \cup {Null}]

\* The keys the Maps of the class can get: Map takes any value as a key.
MapKeyDomain == Ids \cup {Undefined}

\* What discordToMemberMap.get returns for a missing key; getByDiscordId
\* turns it into null.
NoMember == Member(Undefined, Undefined, Undefined)

\* The batches fetchMemberships can return from records of the set S: one
\* record per member of the campaign, in the order of the API pages.
BatchesOf(S) ==
    {<<>>} \cup {<<m>> : m \in S}
           \cup {<<p[1], p[2]>> : p \in {q \in S \X S : q[1].id # q[2].id}}

BatchIds(b) == {b[i].id : i \in DOMAIN b}

(***************************************************************************)
(* JavaScript Map with insertion order, as a sequence of entries           *)
(***************************************************************************)
MapKeys(m) == [i \in DOMAIN m |-> m[i].k]

MapHas(m, key) == \E i \in DOMAIN m : m[i].k = key

MapGet(m, key) ==
    IF MapHas(m, key) THEN m[CHOOSE i \in DOMAIN m : m[i].k = key].v ELSE Undefined

MapSet(m, key, val) ==
    IF MapHas(m, key)
    THEN [i \in DOMAIN m |-> IF m[i].k = key THEN [k |-> key, v |-> val] ELSE m[i]]
    ELSE Append(m, [k |-> key, v |-> val])

MapDelete(m, key) == SelectSeq(m, LAMBDA e : e.k # key)

MapKeySet(m) == {m[i].k : i \in DOMAIN m}

\* A Map whose order is never read, as a function with Undefined for a
\* missing key.
EmptyMap == [id \in MapKeyDomain |-> Undefined]

Keys(f) == {id \in DOMAIN f : f[id] # Undefined}

(***************************************************************************)
(* The object's fields                                                     *)
(***************************************************************************)
VARIABLES
    lastMemberships,        \* Map id -> status, in insertion order
    lastDiscordIds,         \* Map id -> Discord id or null
    subscribedMembers,      \* Set of ids
    canceledMembers,        \* Map id -> timestamp, as its key set
    declinedMembers,        \* Map id -> timestamp, as its key set
    reactivatedMembers,     \* Map id -> timestamp, as its key set
    connectedDiscords,      \* Map id -> Discord id
    disconnectedDiscords,   \* Map id -> Discord id
    discordToMemberMap,     \* Map Discord id -> MembershipData
    isFirstRun,
    intervalId,             \* 0 for null, else the handle of a poll timer
    cacheSaveIntervalId,    \* 0 for null, else the handle of a flush timer
    errorListener,          \* an "error" listener is registered
    memberListener,         \* a listener of the member events and of "ready"
                            \* is registered
\* the environment of the object
    alive,                  \* the process is running
    pollTimers,             \* handles of the armed poll timers
    saveTimers,             \* handles of the armed flush timers
    inflight,               \* the checkForUpdates calls awaiting their fetch,
                            \* oldest first: "init" (its promise is the one
                            \* initialize() chains on) or "timer"
    cacheFile,              \* <<>> if the file is missing, else <<snapshot>>
\* history of the run
    events,                 \* what the last finished tick emitted, in order
    lastBatch,              \* the batch the last finished tick reconciled
    lastTick,               \* "none", "ok" or "aborted"
    stopped                 \* stop() has returned and nothing was started since

persisted == <<lastMemberships, lastDiscordIds, subscribedMembers, canceledMembers,
               declinedMembers, reactivatedMembers, connectedDiscords,
               disconnectedDiscords>>

volatile == <<discordToMemberMap, isFirstRun, intervalId, cacheSaveIntervalId,
              errorListener, memberListener>>

env == <<alive, pollTimers, saveTimers, inflight, cacheFile>>

history == <<events, lastBatch, lastTick, stopped>>

vars == <<persisted, volatile, env, history>>

\* The fields the diffing reads and writes, as one record, so that the
\* synchronous part of a tick is a function from records to records.
Fields ==
    [lastMemberships |-> lastMemberships,
     lastDiscordIds |-> lastDiscordIds,
     subscribedMembers |-> subscribedMembers,
     canceledMembers |-> canceledMembers,
     declinedMembers |-> declinedMembers,
     reactivatedMembers |-> reactivatedMembers,
     connectedDiscords |-> connectedDiscords,
     disconnectedDiscords |-> disconnectedDiscords,
     discordToMemberMap |-> discordToMemberMap,
     emitted |-> <<>>]


(***************************************************************************)
(* emitAndTrack and hasProcessedEvent                                      *)
(***************************************************************************)
Truthy(x) == x # Null /\ x # Undefined

\* One call of super.emit(event, data) for a member event.
Event(event, member) ==
    [type |-> event, id |-> member.id, discordId |-> member.discordId]

ErrorEvent == [type |-> "error", id |-> Undefined, discordId |-> Undefined]

ReadyEvent == [type |-> "ready", id |-> Undefined, discordId |-> Undefined]

TrackSubscribed(st, member) ==
    [st EXCEPT !.subscribedMembers = @ \cup {member.id},
               !.canceledMembers = @ \ {member.id},
               !.declinedMembers = @ \ {member.id}]

TrackReactivated(st, member) ==
    [st EXCEPT !.reactivatedMembers = @ \cup {member.id},
               !.canceledMembers = @ \ {member.id},
               !.declinedMembers = @ \ {member.id}]

TrackCanceled(st, member) ==
    [st EXCEPT !.canceledMembers = @ \cup {member.id},
               !.subscribedMembers = @ \ {member.id},
               !.reactivatedMembers = @ \ {member.id}]

TrackDeclined(st, member) ==
    [st EXCEPT !.declinedMembers = @ \cup {member.id},
               !.subscribedMembers = @ \ {member.id},
               !.reactivatedMembers = @ \ {member.id}]

\* TrackConnected without the delete of line 389.
TrackConnected_KeepsDisconnectRecord(st, member) ==
    IF Truthy(member.discordId)
    THEN [st EXCEPT !.connectedDiscords[member.id] = member.discordId]
    ELSE st

TrackConnected(st, member) ==
    IF Truthy(member.discordId)
    THEN [st EXCEPT !.connectedDiscords[member.id] = member.discordId,
                    !.disconnectedDiscords[member.id] = Undefined]
    ELSE st

\* TrackDisconnected without the delete of line 399.
TrackDisconnected_KeepsConnectRecord(st, member) ==
    IF Truthy(member.discordId)
    THEN [st EXCEPT !.disconnectedDiscords[member.id] = member.discordId]
    ELSE st

TrackDisconnected(st, member) ==
    IF Truthy(member.discordId)
    THEN [st EXCEPT !.disconnectedDiscords[member.id] = member.discordId,
                    !.connectedDiscords[member.id] = Undefined]
    ELSE st

\* TrackExpired without the delete of lines 406-407.
TrackExpired_KeepsSubscribed(st, member) == st

TrackExpired(st, member) ==
    [st EXCEPT !.subscribedMembers = @ \ {member.id}]

\* emitAndTrack for the seven member events (shouldTrack is never passed,
\* so it is true): the bookkeeping first, then the emit.
emitAndTrack(st, event, member) ==
    LET tracked ==
            CASE event = "subscribed" -> TrackSubscribed(st, member)
              [] event = "reactivated" -> TrackReactivated(st, member)
              [] event = "canceled" -> TrackCanceled(st, member)
              [] event = "declined" -> TrackDeclined(st, member)
              [] event = "connected" -> TrackConnected(st, member)
              [] event = "disconnected" -> TrackDisconnected(st, member)
              [] event = "expired" -> TrackExpired(st, member)
              [] OTHER -> st
    IN [tracked EXCEPT !.emitted = Append(@, Event(event, member))]

\* hasProcessedEvent without the case of lines 422-423.
hasProcessedEvent_NoSubscribed(st, event, member) ==
    CASE event = "connected" ->
            /\ st.connectedDiscords[member.id] # Undefined
            /\ st.connectedDiscords[member.id] = member.discordId
      [] event = "disconnected" ->
            /\ st.disconnectedDiscords[member.id] # Undefined
            /\ st.disconnectedDiscords[member.id] = member.discordId
      [] OTHER -> FALSE

hasProcessedEvent(st, event, member) ==
    CASE event = "subscribed" -> member.id \in st.subscribedMembers
      [] event = "connected" ->
            /\ st.connectedDiscords[member.id] # Undefined
            /\ st.connectedDiscords[member.id] = member.discordId
      [] event = "disconnected" ->
            /\ st.disconnectedDiscords[member.id] # Undefined
            /\ st.disconnectedDiscords[member.id] = member.discordId
      [] OTHER -> FALSE

EmitUnlessProcessed(st, event, member) ==
    IF hasProcessedEvent(st, event, member) THEN st ELSE emitAndTrack(st, event, member)

(***************************************************************************)
(* checkForUpdates: the synchronous part after the fetch                   *)
(***************************************************************************)
\* StatusChanges with an if in place of the else-if of line 467: the status
\* events are considered for a member without a previous status as well.
StatusChanges_NoElse(st, member, previousStatus, firstRun) ==
    LET s0 == IF /\ previousStatus = Undefined
                 /\ ~firstRun /\ ~hasProcessedEvent(st, "subscribed", member)
              THEN emitAndTrack(st, "subscribed", member) ELSE st
    IN IF previousStatus # member.status
       THEN LET s1 == IF member.status = "former_patron"
                      THEN emitAndTrack(s0, "canceled", member) ELSE s0
                s2 == IF member.status = "declined_patron"
                      THEN emitAndTrack(s1, "declined", member) ELSE s1
                s3 == IF /\ member.status = "active_patron"
                         /\ previousStatus \in {"former_patron", "declined_patron"}
                      THEN emitAndTrack(s2, "reactivated", member) ELSE s2
                s4 == IF member.status = "none"
                      THEN emitAndTrack(s3, "expired", member) ELSE s3
            IN s4
       ELSE s0

\* StatusChanges with the status-change events guarded by the tracking maps,
\* the way subscribed is guarded at line 464.
StatusChanges_OncePerMember(st, member, previousStatus, firstRun) ==
    IF previousStatus = Undefined
    THEN IF ~firstRun /\ ~hasProcessedEvent(st, "subscribed", member)
         THEN emitAndTrack(st, "subscribed", member)
         ELSE st
    ELSE IF previousStatus # member.status
    THEN LET s1 == IF /\ member.status = "former_patron"
                      /\ member.id \notin st.canceledMembers
                   THEN emitAndTrack(st, "canceled", member) ELSE st
             s2 == IF /\ member.status = "declined_patron"
                      /\ member.id \notin s1.declinedMembers
                   THEN emitAndTrack(s1, "declined", member) ELSE s1
             s3 == IF /\ member.status = "active_patron"
                      /\ previousStatus \in {"former_patron", "declined_patron"}
                      /\ member.id \notin s2.reactivatedMembers
                   THEN emitAndTrack(s2, "reactivated", member) ELSE s2
             s4 == IF member.status = "none"
                   THEN emitAndTrack(s3, "expired", member) ELSE s3
         IN s4
    ELSE st

\* StatusChanges with a plain else at line 467, without the comparison of
\* the two statuses.
StatusChanges_WithoutComparison(st, member, previousStatus, firstRun) ==
    IF previousStatus = Undefined
    THEN IF ~firstRun /\ ~hasProcessedEvent(st, "subscribed", member)
         THEN emitAndTrack(st, "subscribed", member)
         ELSE st
    ELSE LET s1 == IF member.status = "former_patron"
                   THEN emitAndTrack(st, "canceled", member) ELSE st
             s2 == IF member.status = "declined_patron"
                   THEN emitAndTrack(s1, "declined", member) ELSE s1
             s3 == IF /\ member.status = "active_patron"
                      /\ previousStatus \in {"former_patron", "declined_patron"}
                   THEN emitAndTrack(s2, "reactivated", member) ELSE s2
             s4 == IF member.status = "none"
                   THEN emitAndTrack(s3, "expired", member) ELSE s3
         IN s4

\* Lines 460-479: membership status changes.
StatusChanges(st, member, previousStatus, firstRun) ==
    IF previousStatus = Undefined
    THEN IF ~firstRun /\ ~hasProcessedEvent(st, "subscribed", member)
         THEN emitAndTrack(st, "subscribed", member)
         ELSE st
    ELSE IF previousStatus # member.status
    THEN LET s1 == IF member.status = "former_patron"
                   THEN emitAndTrack(st, "canceled", member) ELSE st
             s2 == IF member.status = "declined_patron"
                   THEN emitAndTrack(s1, "declined", member) ELSE s1
             s3 == IF /\ member.status = "active_patron"
                      /\ previousStatus \in {"former_patron", "declined_patron"}
                   THEN emitAndTrack(s2, "reactivated", member) ELSE s2
             s4 == IF member.status = "none"
                   THEN emitAndTrack(s3, "expired", member) ELSE s3
         IN s4
    ELSE st

\* DiscordChanges with the two emissions of an account change (lines 502 and
\* 510) in the other order.
DiscordChanges_ConnectFirst(st, member, previousDiscordId) ==
    LET disconnectMember == [member EXCEPT !.discordId = previousDiscordId]
    IN IF previousDiscordId = Undefined \/ previousDiscordId = Null
       THEN IF Truthy(member.discordId)
            THEN EmitUnlessProcessed(st, "connected", member)
            ELSE st
       ELSE IF ~Truthy(member.discordId)
       THEN EmitUnlessProcessed(st, "disconnected", disconnectMember)
       ELSE IF previousDiscordId # member.discordId
       THEN EmitUnlessProcessed(
                EmitUnlessProcessed(st, "connected", member),
                "disconnected", disconnectMember)
       ELSE st

\* Lines 481-515: Discord connection changes.
DiscordChanges(st, member, previousDiscordId) ==
    LET disconnectMember == [member EXCEPT !.discordId = previousDiscordId]
    IN IF previousDiscordId = Undefined \/ previousDiscordId = Null
       THEN IF Truthy(member.discordId)
            THEN EmitUnlessProcessed(st, "connected", member)
            ELSE st
       ELSE IF ~Truthy(member.discordId)
       THEN EmitUnlessProcessed(st, "disconnected", disconnectMember)
       ELSE IF previousDiscordId # member.discordId
       THEN EmitUnlessProcessed(
                EmitUnlessProcessed(st, "disconnected", disconnectMember),
                "connected", member)
       ELSE st

\* UpdateTracking without line 519.
UpdateTracking_SkipsDiscordId(st, member) ==
    [st EXCEPT !.lastMemberships = MapSet(@, member.id, member.status)]

\* Lines 517-519: update our tracking.
UpdateTracking(st, member) ==
    [st EXCEPT !.lastMemberships = MapSet(@, member.id, member.status),
               !.lastDiscordIds[member.id] = member.discordId]

\* ProcessMember with the Discord block (lines 481-515) ahead of the status
\* block (lines 460-479).
ProcessMember_DiscordFirst(st, member, firstRun) ==
    LET previousStatus == MapGet(st.lastMemberships, member.id)
        previousDiscordId == st.lastDiscordIds[member.id]
        indexed == IF Truthy(member.discordId)
                   THEN [st EXCEPT !.discordToMemberMap[member.discordId] = member]
                   ELSE st
        afterDiscord == DiscordChanges(indexed, member, previousDiscordId)
        afterStatus == StatusChanges(afterDiscord, member, previousStatus, firstRun)
    IN UpdateTracking(afterStatus, member)

\* ProcessMember with the Discord block (lines 481-515) under the isFirstRun
\* test of line 464 as well.
ProcessMember_FirstRunSilent(st, member, firstRun) ==
    LET previousStatus == MapGet(st.lastMemberships, member.id)
        previousDiscordId == st.lastDiscordIds[member.id]
        indexed == IF Truthy(member.discordId)
                   THEN [st EXCEPT !.discordToMemberMap[member.discordId] = member]
                   ELSE st
        afterStatus == StatusChanges(indexed, member, previousStatus, firstRun)
        afterDiscord == IF firstRun THEN afterStatus
                        ELSE DiscordChanges(afterStatus, member, previousDiscordId)
    IN UpdateTracking(afterDiscord, member)

\* Lines 447-520: the body of memberships.forEach for one record.
ProcessMember(st, member, firstRun) ==
    LET previousStatus == MapGet(st.lastMemberships, member.id)
        previousDiscordId == st.lastDiscordIds[member.id]
        indexed == IF Truthy(member.discordId)
                   THEN [st EXCEPT !.discordToMemberMap[member.discordId] = member]
                   ELSE st
        afterStatus == StatusChanges(indexed, member, previousStatus, firstRun)
        afterDiscord == DiscordChanges(afterStatus, member, previousDiscordId)
    IN UpdateTracking(afterDiscord, member)

RECURSIVE ForEachMember(_, _, _)
ForEachMember(st, memberships, firstRun) ==
    IF memberships = <<>> THEN st
    ELSE ForEachMember(ProcessMember(st, Head(memberships), firstRun),
                       Tail(memberships), firstRun)

\* RemoveIfGone without line 543.
RemoveIfGone_KeepsDiscordId(st, id, currentMembers) ==
    IF id \in currentMembers THEN st
    ELSE LET got == MapGet(st.lastMemberships, id)
             lastKnownStatus == IF got = Undefined THEN "none" ELSE got
             lastKnownDiscordId == st.lastDiscordIds[id]
             disconnectMember == Member(id, lastKnownStatus, lastKnownDiscordId)
             told == IF Truthy(lastKnownDiscordId)
                     THEN EmitUnlessProcessed(st, "disconnected", disconnectMember)
                     ELSE st
         IN [told EXCEPT !.lastMemberships = MapDelete(@, id)]

\* Lines 524-544: one iteration of the loop over lastMemberships.keys().
RemoveIfGone(st, id, currentMembers) ==
    IF id \in currentMembers THEN st
    ELSE LET got == MapGet(st.lastMemberships, id)
             lastKnownStatus == IF got = Undefined THEN "none" ELSE got
             lastKnownDiscordId == st.lastDiscordIds[id]
             disconnectMember == Member(id, lastKnownStatus, lastKnownDiscordId)
             told == IF Truthy(lastKnownDiscordId)
                     THEN EmitUnlessProcessed(st, "disconnected", disconnectMember)
                     ELSE st
         IN [told EXCEPT !.lastMemberships = MapDelete(@, id),
                         !.lastDiscordIds[id] = Undefined]

\* A Map iterator is live, and the loop deletes only the entry it is at,
\* so it visits the keys held at its start in their insertion order.
RECURSIVE DetectRemoved(_, _, _)
DetectRemoved(st, keys, currentMembers) ==
    IF keys = <<>> THEN st
    ELSE DetectRemoved(RemoveIfGone(st, Head(keys), currentMembers),
                       Tail(keys), currentMembers)

\* Reconcile without the clear of line 442.
Reconcile_KeepsIndex(st, memberships, firstRun) ==
    LET currentMembers == BatchIds(memberships)
        diffed == ForEachMember(st, memberships, firstRun)
    IN DetectRemoved(diffed, MapKeys(diffed.lastMemberships), currentMembers)

\* Lines 439-545: what checkForUpdates does with the fetched memberships.
Reconcile(st, memberships, firstRun) ==
    LET currentMembers == BatchIds(memberships)
        cleared == [st EXCEPT !.discordToMemberMap = [d \in Discords |-> NoMember]]
        diffed == ForEachMember(cleared, memberships, firstRun)
    IN DetectRemoved(diffed, MapKeys(diffed.lastMemberships), currentMembers)

(***************************************************************************)
(* The State Store: loadCache and saveCache                                *)
(***************************************************************************)
\* Lines 200-210: the CacheData object saveCache builds (lastUpdated left out).
CacheData(st) ==
    [memberships |-> st.lastMemberships,
     discordIds |-> st.lastDiscordIds,
     subscribedMembers |-> st.subscribedMembers,
     canceledMembers |-> st.canceledMembers,
     declinedMembers |-> st.declinedMembers,
     reactivatedMembers |-> st.reactivatedMembers,
     connectedDiscords |-> st.connectedDiscords,
     disconnectedDiscords |-> st.disconnectedDiscords]

\* saveCache whose failed write leaves no file behind.
saveCache_LosesFileOnFailure(st, file, written) ==
    IF written THEN <<CacheData(st)>> ELSE <<>>

\* saveCache: the file after the call.  A failed write is caught and logged
\* and leaves the file as it was.
saveCache(st, file, written) == IF written THEN <<CacheData(st)>> ELSE file

(***************************************************************************)
(* Initial state: a freshly constructed object, no cache file              *)
(***************************************************************************)
Init ==
    /\ lastMemberships = <<>>
    /\ lastDiscordIds = EmptyMap
    /\ subscribedMembers = {}
    /\ canceledMembers = {}
    /\ declinedMembers = {}
    /\ reactivatedMembers = {}
    /\ connectedDiscords = EmptyMap
    /\ disconnectedDiscords = EmptyMap
    /\ discordToMemberMap = [d \in Discords |-> NoMember]
    /\ isFirstRun = TRUE
    /\ intervalId = 0
    /\ cacheSaveIntervalId = 0
    /\ errorListener = FALSE
    /\ memberListener = FALSE
    /\ alive = TRUE
    /\ pollTimers = {}
    /\ saveTimers = {}
    /\ inflight = <<>>
    /\ cacheFile = <<>>
    /\ events = <<>>
    /\ lastBatch = <<>>
    /\ lastTick = "none"
    /\ stopped = FALSE

(***************************************************************************)
(* Operations.  Their inputs come from sets the specification passes:      *)
(* records for the records the Membership Source can return, saves for the *)
(* ways a write of the cache file can end (TRUE: written).                 *)
(***************************************************************************)
Min(S) == CHOOSE x \in S : \A y \in S : x <= y

\* The handle setInterval returns: a timer that is not armed yet.
FreshHandle(armed) == Min((1 .. Cardinality(armed) + 1) \ armed)

Remove(seq, i) == [j \in 1 .. Len(seq) - 1 |-> IF j < i THEN seq[j] ELSE seq[j + 1]]

InitsInflight == Cardinality({i \in DOMAIN inflight : inflight[i] = "init"})

\* The start of checkForUpdates up to its await: the fetch is under way.
StartTick(kind) == inflight' = Append(inflight, kind)

\* on("error", listener), lines 121-123.
OnError ==
    /\ alive
    /\ ~errorListener
    /\ errorListener' = TRUE
    /\ UNCHANGED <<persisted, discordToMemberMap, isFirstRun, intervalId,
                   cacheSaveIntervalId, memberListener, env, history>>

\* on(event, listener), lines 121-123, for the member events and "ready".
OnMember ==
    /\ alive
    /\ ~memberListener
    /\ memberListener' = TRUE
    /\ UNCHANGED <<persisted, discordToMemberMap, isFirstRun, intervalId,
                   cacheSaveIntervalId, errorListener, env, history>>

\* initialize(), lines 572-574: the initial check starts.  The model lets
\* at most maxInflight fetches be under way, and at most maxTimers poll
\* timers be armed once the initial checks under way have finished.
Initialize(maxInflight, maxTimers) ==
    /\ alive
    /\ Len(inflight) < maxInflight
    /\ Cardinality(pollTimers) + InitsInflight < maxTimers
    /\ StartTick("init")
    /\ stopped' = FALSE
    /\ UNCHANGED <<persisted, volatile, alive, pollTimers, saveTimers, cacheFile,
                   events, lastBatch, lastTick>>

\* The callback of a poll timer, line 576.
PollTimerFires(maxInflight) ==
    /\ alive
    /\ pollTimers # {}
    /\ Len(inflight) < maxInflight
    /\ StartTick("timer")
    /\ UNCHANGED <<persisted, volatile, alive, pollTimers, saveTimers, cacheFile,
                   history>>

\* FinishTick with the save of line 551 ahead of the forEach of line 447:
\* the file gets the fields as the tick found them.
FinishTick_SavesFirst(i, memberships, before, written) ==
    LET st == Reconcile(Fields, memberships, isFirstRun)
        first == inflight[i] = "init"
    IN /\ lastMemberships' = st.lastMemberships
       /\ lastDiscordIds' = st.lastDiscordIds
       /\ subscribedMembers' = st.subscribedMembers
       /\ canceledMembers' = st.canceledMembers
       /\ declinedMembers' = st.declinedMembers
       /\ reactivatedMembers' = st.reactivatedMembers
       /\ connectedDiscords' = st.connectedDiscords
       /\ disconnectedDiscords' = st.disconnectedDiscords
       /\ discordToMemberMap' = st.discordToMemberMap
       /\ isFirstRun' = FALSE
       /\ cacheFile' = saveCache(Fields, cacheFile, written)
       /\ inflight' = Remove(inflight, i)
       /\ IF first
          THEN /\ intervalId' = FreshHandle(pollTimers)
               /\ pollTimers' = pollTimers \cup {FreshHandle(pollTimers)}
               /\ cacheSaveIntervalId' = FreshHandle(saveTimers)
               /\ saveTimers' = saveTimers \cup {FreshHandle(saveTimers)}
          ELSE UNCHANGED <<intervalId, cacheSaveIntervalId, pollTimers, saveTimers>>
       /\ events' = before \o st.emitted \o (IF first THEN <<ReadyEvent>> ELSE <<>>)
       /\ lastBatch' = memberships
       /\ lastTick' = "ok"
       /\ UNCHANGED <<errorListener, memberListener, alive, stopped>>

\* Lines 439-551 for tick i of inflight with the fetched memberships, and
\* for the initial check the then-callback of initialize(), lines 575-581.
\* before is what fetchMemberships emitted.
FinishTick(i, memberships, before, written) ==
    LET st == Reconcile(Fields, memberships, isFirstRun)
        first == inflight[i] = "init"
    IN /\ lastMemberships' = st.lastMemberships
       /\ lastDiscordIds' = st.lastDiscordIds
       /\ subscribedMembers' = st.subscribedMembers
       /\ canceledMembers' = st.canceledMembers
       /\ declinedMembers' = st.declinedMembers
       /\ reactivatedMembers' = st.reactivatedMembers
       /\ connectedDiscords' = st.connectedDiscords
       /\ disconnectedDiscords' = st.disconnectedDiscords
       /\ discordToMemberMap' = st.discordToMemberMap
       /\ isFirstRun' = FALSE
       /\ cacheFile' = saveCache(st, cacheFile, written)
       /\ inflight' = Remove(inflight, i)
       /\ IF first
          THEN /\ intervalId' = FreshHandle(pollTimers)
               /\ pollTimers' = pollTimers \cup {FreshHandle(pollTimers)}
               /\ cacheSaveIntervalId' = FreshHandle(saveTimers)
               /\ saveTimers' = saveTimers \cup {FreshHandle(saveTimers)}
          ELSE UNCHANGED <<intervalId, cacheSaveIntervalId, pollTimers, saveTimers>>
       /\ events' = before \o st.emitted \o (IF first THEN <<ReadyEvent>> ELSE <<>>)
       /\ lastBatch' = memberships
       /\ lastTick' = "ok"
       /\ UNCHANGED <<errorListener, memberListener, alive, stopped>>

\* The fetch of a tick returns the campaign's members.
FetchReturns(records, saves) ==
    \E i \in DOMAIN inflight, memberships \in BatchesOf(records), written \in saves :
        /\ alive
        /\ FinishTick(i, memberships, <<>>, written)

\* FetchFailsReported for a fetchMemberships that throws again after the
\* emit of line 313: the tick ends there and the then-callback of
\* initialize() is skipped.
FetchFailsReported_Rethrows(saves) ==
    \E i \in DOMAIN inflight, written \in saves :
        /\ alive
        /\ errorListener
        /\ inflight' = Remove(inflight, i)
        /\ events' = <<ErrorEvent, ErrorEvent>>
        /\ lastBatch' = <<>>
        /\ lastTick' = "aborted"
        /\ UNCHANGED <<persisted, volatile, alive, pollTimers, saveTimers,
                       cacheFile, stopped>>

\* The fetch of a tick throws and an "error" listener is registered: lines
\* 301-314 emit the error and return [], and checkForUpdates goes on.
FetchFailsReported(saves) ==
    \E i \in DOMAIN inflight, written \in saves :
        /\ alive
        /\ errorListener
        /\ FinishTick(i, <<>>, <<ErrorEvent>>, written)

\* The fetch of a tick throws and no "error" listener is registered: emit
\* throws at line 313, again at line 553 and, for the initial check, again
\* at line 583.  The promise is rejected and nobody handles it; Node either
\* warns and goes on or ends the process.
FetchFailsUnhandled ==
    \E i \in DOMAIN inflight, exits \in BOOLEAN :
        /\ alive
        /\ ~errorListener
        /\ alive' = ~exits
        /\ inflight' = IF exits THEN <<>> ELSE Remove(inflight, i)
        /\ pollTimers' = IF exits THEN {} ELSE pollTimers
        /\ saveTimers' = IF exits THEN {} ELSE saveTimers
        /\ events' = <<ErrorEvent>>
        /\ lastBatch' = <<>>
        /\ lastTick' = "aborted"
        /\ UNCHANGED <<persisted, volatile, cacheFile, stopped>>

\* The callback of a flush timer, line 579.
SaveTimerFires(saves) ==
    \E written \in saves :
        /\ alive
        /\ saveTimers # {}
        /\ cacheFile' = saveCache(Fields, cacheFile, written)
        /\ UNCHANGED <<persisted, volatile, alive, pollTimers, saveTimers, inflight,
                       history>>

\* Lines 593-604 and 614-625: clear the two timers the fields refer to,
\* then save.
ClearAndSave(written) ==
    /\ pollTimers' = pollTimers \ {intervalId}
    /\ intervalId' = 0
    /\ saveTimers' = saveTimers \ {cacheSaveIntervalId}
    /\ cacheSaveIntervalId' = 0
    /\ cacheFile' = saveCache(Fields, cacheFile, written)

\* stop() without the removeAllListeners of line 627.
Stop_KeepsListeners(saves) ==
    \E written \in saves :
        /\ alive
        /\ ClearAndSave(written)
        /\ stopped' = TRUE
        /\ UNCHANGED <<persisted, discordToMemberMap, isFirstRun, errorListener,
                       memberListener, alive, inflight, events, lastBatch, lastTick>>

\* stop(), lines 613-629.
Stop(saves) ==
    \E written \in saves :
        /\ alive
        /\ ClearAndSave(written)
        /\ errorListener' = FALSE
        /\ memberListener' = FALSE
        /\ stopped' = TRUE
        /\ UNCHANGED <<persisted, discordToMemberMap, isFirstRun, alive, inflight,
                       events, lastBatch, lastTick>>

\* restart(), lines 591-608.
Restart(maxInflight, maxTimers, saves) ==
    \E written \in saves :
        /\ alive
        /\ Len(inflight) < maxInflight
        /\ Cardinality(pollTimers \ {intervalId}) + InitsInflight < maxTimers
        /\ ClearAndSave(written)
        /\ StartTick("init")
        /\ stopped' = FALSE
        /\ UNCHANGED <<persisted, discordToMemberMap, isFirstRun, errorListener,
                       memberListener,
                       alive, events, lastBatch, lastTick>>

\* The strings users.get is called with: the Discord ids, and one with
\* blanks around it.
LookupKeys == Discords \cup {" D1 "}

\* String.prototype.trim on the lookup keys.
Trim(s) == IF s = " D1 " THEN "D1" ELSE s

\* The null getByDiscordId returns, in the shape of a record.
NullMember == Member(Null, Null, Null)

\* getByDiscordId, lines 562-566, which users.get (lines 94-98) returns.
getByDiscordId(discordId) ==
    LET normalizedDiscordId == Trim(discordId)
        found == IF normalizedDiscordId \in DOMAIN discordToMemberMap
                 THEN discordToMemberMap[normalizedDiscordId]
                 ELSE NoMember
    IN IF found = NoMember THEN NullMember ELSE found

\* loadCache, lines 136-186: the fields after reading the file; a missing
\* file leaves the constructor's empty maps and sets.
loadCache(file) ==
    IF file = <<>>
    THEN [memberships |-> <<>>, discordIds |-> EmptyMap, subscribedMembers |-> {},
          canceledMembers |-> {}, declinedMembers |-> {}, reactivatedMembers |-> {},
          connectedDiscords |-> EmptyMap, disconnectedDiscords |-> EmptyMap]
    ELSE file[1]

\* The process ends and a new one constructs the object, lines 100-114.
NewProcess ==
    LET data == loadCache(cacheFile)
    IN /\ lastMemberships' = data.memberships
       /\ lastDiscordIds' = data.discordIds
       /\ subscribedMembers' = data.subscribedMembers
       /\ canceledMembers' = data.canceledMembers
       /\ declinedMembers' = data.declinedMembers
       /\ reactivatedMembers' = data.reactivatedMembers
       /\ connectedDiscords' = data.connectedDiscords
       /\ disconnectedDiscords' = data.disconnectedDiscords
       /\ discordToMemberMap' = [d \in Discords |-> NoMember]
       /\ isFirstRun' = TRUE
       /\ intervalId' = 0
       /\ cacheSaveIntervalId' = 0
       /\ errorListener' = FALSE
       /\ memberListener' = FALSE
       /\ alive' = TRUE
       /\ pollTimers' = {}
       /\ saveTimers' = {}
       /\ inflight' = <<>>
       /\ events' = <<>>
       /\ lastBatch' = <<>>
       /\ lastTick' = "none"
       /\ stopped' = FALSE
       /\ UNCHANGED cacheFile

(***************************************************************************)
(* Specifications                                                          *)
(***************************************************************************)
MaxInflight == 1    \* Spec, SpecPair: most fetches under way at once
SchedInflight == 2  \* SpecSched: most fetches under way at once
SchedTimers == 2    \* SpecSched: most poll timers armed at once

Written == {TRUE}   \* every write of the cache file succeeds

\* Spec: a campaign with the one member A, in any status and with any
\* Discord link, polled by processes that call initialize() while no poll
\* timer is armed and no initial check is under way, and may call stop().
RecordsA == {m \in Members : m.id = "A"}

Next ==
    \/ OnError
    \/ Initialize(1, 1)
    \/ PollTimerFires(MaxInflight)
    \/ FetchReturns(RecordsA, Written)
    \/ FetchFailsReported(Written)
    \/ FetchFailsUnhandled
    \/ SaveTimerFires(Written)
    \/ Stop(Written)
    \/ NewProcess

Spec == Init /\ [][Next]_vars

\* SpecPair: a campaign with the members A (active or former) and B
\* (active), each linked to D1 or not linked, polled by one process.
RecordsPair ==
    {m \in Members : /\ m.discordId # "D2"
                     /\ m.status \in (IF m.id = "A" THEN {"active_patron", "former_patron"}
                                       ELSE {"active_patron"})}

NextPair ==
    \/ Initialize(1, 1)
    \/ PollTimerFires(MaxInflight)
    \/ FetchReturns(RecordsPair, Written)

SpecPair == Init /\ [][NextPair]_vars

\* SpecPoll: one call of initialize() on one process, whose poll timer
\* fires whether or not the fetch of an earlier tick has returned.
RecordsSched ==
    {m \in Members : m.id = "A" /\ m.status = "active_patron" /\ m.discordId # "D2"}

NextPoll ==
    \/ OnError
    \/ Initialize(1, 1)
    \/ PollTimerFires(SchedInflight)
    \/ FetchReturns(RecordsSched, Written)
    \/ FetchFailsReported(Written)
    \/ FetchFailsUnhandled

SpecPoll == Init /\ [][NextPoll]_vars

\* SpecMalformed: ticks of one process whose batches can hold a record
\* without an id next to a record of member A.
RecordsMalformed ==
    {m \in Members : m.id = "A" /\ m.discordId # "D2"
                         /\ m.status \in {"active_patron", "former_patron"}}
    \cup {m \in MalformedMembers : m.discordId # "D2" /\ m.status = "active_patron"}

NextMalformed ==
    \/ Initialize(1, 1)
    \/ PollTimerFires(MaxInflight)
    \/ FetchReturns(RecordsMalformed, Written)

SpecMalformed == Init /\ [][NextMalformed]_vars

\* SpecStore: ticks, flushes and stop() of one process whose writes of the
\* cache file can fail (writeFileSync or mkdirSync throws, lines 193-211).
WrittenOrNot == BOOLEAN

RecordsStore ==
    {m \in Members : m.id = "A" /\ m.discordId # "D2"
                         /\ m.status \in {"active_patron", "former_patron"}}

NextStore ==
    \/ Initialize(1, 1)
    \/ PollTimerFires(MaxInflight)
    \/ FetchReturns(RecordsStore, WrittenOrNot)
    \/ SaveTimerFires(WrittenOrNot)
    \/ Stop(WrittenOrNot)

SpecStore == Init /\ [][NextStore]_vars

\* SpecLive: SpecPoll with stop(), one fetch at a time, and a poll timer
\* that fires when it is due: setInterval runs its callback every
\* checkInterval for as long as the timer is armed and the process runs.
NextLive ==
    \/ OnError
    \/ Initialize(1, 1)
    \/ PollTimerFires(MaxInflight)
    \/ FetchReturns(RecordsSched, Written)
    \/ FetchFailsReported(Written)
    \/ FetchFailsUnhandled
    \/ Stop(Written)

SpecLive == Init /\ [][NextLive]_vars /\ WF_vars(PollTimerFires(MaxInflight))

\* SpecSched: any calls of initialize(), restart() and stop() on one
\* process, with a campaign whose one member A is active, linked or not.

NextSched ==
    \/ OnError
    \/ Initialize(SchedInflight, SchedTimers)
    \/ PollTimerFires(SchedInflight)
    \/ FetchReturns(RecordsSched, Written)
    \/ FetchFailsReported(Written)
    \/ FetchFailsUnhandled
    \/ SaveTimerFires(Written)
    \/ Stop(Written)
    \/ Restart(SchedInflight, SchedTimers, Written)

SpecSched == Init /\ [][NextSched]_vars

\* SpecRestart: one call of initialize() and then any calls of restart() on
\* one process, an initial check under way or not.
NextRestart ==
    \/ OnError
    \/ Initialize(1, 1)
    \/ PollTimerFires(SchedInflight)
    \/ FetchReturns(RecordsSched, Written)
    \/ FetchFailsReported(Written)
    \/ Restart(SchedInflight, SchedTimers, Written)

SpecRestart == Init /\ [][NextRestart]_vars

\* SpecListen: observers register their listeners before stop() is called,
\* and stop() can come while a fetch is under way.
NextListen ==
    \/ OnError /\ ~stopped
    \/ OnMember /\ ~stopped
    \/ Initialize(1, 1)
    \/ PollTimerFires(MaxInflight)
    \/ FetchReturns(RecordsSched, Written)
    \/ FetchFailsReported(Written)
    \/ FetchFailsUnhandled
    \/ Stop(Written)

SpecListen == Init /\ [][NextListen]_vars

(***************************************************************************)
(* Properties                                                              *)
(***************************************************************************)
\* This step is the end of a tick that ran to its save.
TickFinished == lastTick' = "ok" /\ Len(inflight') < Len(inflight)

\* This step is the end of a tick whose fetch threw.
FetchFailed ==
    /\ Len(inflight') < Len(inflight)
    /\ events' # <<>>
    /\ events'[1] = ErrorEvent

MemberEventTypes ==
    {"subscribed", "canceled", "declined", "reactivated", "expired",
     "connected", "disconnected"}

LinkageEventTypes == {"connected", "disconnected"}

MemberEvents(log) == SelectSeq(log, LAMBDA e : e.type \in MemberEventTypes)

Count(log, type, id) ==
    Cardinality({i \in DOMAIN log : log[i].type = type /\ log[i].id = id})

\* C1: ticks never overlap: no checkForUpdates starts its fetch while an
\* earlier one is still between its fetch and its save.
C1_TicksNeverOverlap == Len(inflight) <= 1

\* C2: after stop() has returned no further tick starts, whatever was under
\* way when it was called.
C2_NoTickAfterStop ==
    [][stopped /\ stopped' => Len(inflight') <= Len(inflight)]_vars

\* C3: when the fetch of a tick fails, the Persisted State after the tick
\* is what it was before it and the tick emits no membership or linkage
\* event.
C3_FailedFetchChangesNothing ==
    [][FetchFailed => persisted' = persisted /\ MemberEvents(events') = <<>>]_vars

\* C4: no id is a key of both connectedDiscords and disconnectedDiscords.
C4_LinkageRecordsExclusive ==
    \A id \in Ids :
        ~(connectedDiscords[id] # Undefined /\ disconnectedDiscords[id] # Undefined)

\* C4's case: an account swap, where one tick records a disconnect and
\* then a connect for the same member.
C4_Witness ==
    /\ lastTick = "ok"
    /\ Count(events, "disconnected", "A") = 1
    /\ Count(events, "connected", "A") = 1
    /\ connectedDiscords["A"] # Undefined

\* C5: every id is in at most one of subscribedMembers, canceledMembers
\* and declinedMembers.
C5_OneDisposition ==
    /\ subscribedMembers \cap canceledMembers = {}
    /\ subscribedMembers \cap declinedMembers = {}
    /\ canceledMembers \cap declinedMembers = {}

\* C6: after a tick that ran to its save, lastMemberships and
\* lastDiscordIds have exactly the ids of the tick's batch as keys and hold
\* the status and the Discord id of each record of the batch.
C6_MapsMirrorBatch ==
    lastTick = "ok" =>
        /\ MapKeySet(lastMemberships) = BatchIds(lastBatch)
        /\ Keys(lastDiscordIds) = BatchIds(lastBatch)
        /\ \A i \in DOMAIN lastBatch :
              /\ MapGet(lastMemberships, lastBatch[i].id) = lastBatch[i].status
              /\ lastDiscordIds[lastBatch[i].id] = lastBatch[i].discordId

\* C6's case: a tick whose batch kept one member and lost another: the
\* member that is gone was told disconnected and is out of the maps.
C6_Witness ==
    /\ lastTick = "ok"
    /\ BatchIds(lastBatch) = {"A"}
    /\ Count(events, "disconnected", "B") = 1
    /\ MapKeySet(lastMemberships) = {"A"}

\* The subscribed events of a tick for the members it sees for the first
\* time, given how many of them are due for a member that subscribedMembers
\* already holds.
SubscribedOnAppearance(dueIfTracked) ==
    TickFinished /\ ~isFirstRun =>
        \A id \in BatchIds(lastBatch') :
            ~MapHas(lastMemberships, id) =>
                /\ Count(events', "subscribed", id) =
                       IF id \in subscribedMembers THEN dueIfTracked ELSE 1
                /\ id \in subscribedMembers'

\* C7 as claimed: every member with no entry in lastMemberships that is in
\* the batch of a tick with isFirstRun false gets exactly one subscribed
\* event in that tick and is in subscribedMembers afterwards.
C7_SubscribedOnEveryAppearance == [][SubscribedOnAppearance(1)]_vars

\* C7 as amended: such a member gets exactly one subscribed event unless
\* subscribedMembers already holds it, and then it gets none; either way
\* it is in subscribedMembers afterwards.
C7_SubscribedUnlessTracked == [][SubscribedOnAppearance(0)]_vars

\* C7's case: a later tick of a process has told a new member subscribed.
C7_Witness ==
    /\ lastTick = "ok"
    /\ Count(events, "subscribed", "A") = 1
    /\ "A" \in subscribedMembers
    /\ "A" \in BatchIds(lastBatch)

\* C8: a tick that reconciles the batch the tick before it reconciled
\* emits no membership or linkage event and leaves the Persisted State as
\* it was.
C8_SameBatchTwice ==
    [][TickFinished /\ lastTick = "ok" /\ lastBatch' = lastBatch =>
          MemberEvents(events') = <<>> /\ persisted' = persisted]_vars

\* C8's case: a timer tick over a linked former member that had nothing to
\* tell.
C8_Witness ==
    /\ lastTick = "ok"
    /\ ~isFirstRun
    /\ events = <<>>
    /\ \E i \in DOMAIN lastBatch :
          lastBatch[i].status = "former_patron" /\ lastBatch[i].discordId = "D2"
    /\ "A" \in canceledMembers
    /\ connectedDiscords["A"] = "D2"

\* C9: a member with an entry in lastMemberships and a Discord id L in
\* lastDiscordIds that is missing from the batch of a tick gets exactly one
\* disconnected event in that tick, carrying L, and has no entry in either
\* map afterwards.
C9_DisconnectOnRemoval ==
    [][TickFinished =>
          \A id \in Ids :
              /\ MapHas(lastMemberships, id)
              /\ Truthy(lastDiscordIds[id])
              /\ id \notin BatchIds(lastBatch')
              => /\ Count(events', "disconnected", id) = 1
                 /\ \A i \in DOMAIN events' :
                       events'[i].type = "disconnected" /\ events'[i].id = id
                       => events'[i].discordId = lastDiscordIds[id]
                 /\ ~MapHas(lastMemberships', id)
                 /\ lastDiscordIds'[id] = Undefined]_vars

\* C9's case: the campaign lost its only member, who was linked to D2 and
\* had been disconnected from D1 and D2 before.
C9_Witness ==
    /\ lastTick = "ok"
    /\ lastBatch = <<>>
    /\ \E i \in DOMAIN events :
          events[i].type = "disconnected" /\ events[i].id = "A" /\ events[i].discordId = "D2"
    /\ lastMemberships = <<>>

\* Where a member event stands in the order of a tick: the place of its
\* member in the batch (after the whole batch for a member that is gone),
\* then membership before linkage.
Place(batch, id) ==
    IF id \in BatchIds(batch)
    THEN CHOOSE i \in DOMAIN batch : batch[i].id = id
    ELSE Len(batch) + 1

Rank(batch, e) ==
    2 * Place(batch, e.id) + (IF e.type \in LinkageEventTypes THEN 1 ELSE 0)

InTickOrder(batch, log) ==
    /\ \A i, j \in DOMAIN log : i < j => Rank(batch, log[i]) <= Rank(batch, log[j])
    /\ \A i \in DOMAIN log : log[i].id \notin BatchIds(batch) => log[i].type = "disconnected"

\* C10: the member events of a tick come member by member in the order of
\* the batch, for each member its membership event before its linkage
\* events, and after them the disconnected events of the members that are
\* gone; and from A active and linked to D1, the batch [A former, not
\* linked] emits canceled(A) and then disconnected(A, D1).
C10_EventOrder ==
    [][TickFinished =>
          /\ InTickOrder(lastBatch', MemberEvents(events'))
          /\ ( /\ MapKeySet(lastMemberships) = {"A"}
               /\ MapGet(lastMemberships, "A") = "active_patron"
               /\ lastDiscordIds["A"] = "D1"
               /\ lastBatch' = <<Member("A", "former_patron", Null)>>
               => MemberEvents(events') =
                      <<Event("canceled", Member("A", "former_patron", Null)),
                        Event("disconnected", Member("A", "former_patron", "D1"))>> )]_vars

\* C10's case: one tick told A canceled and disconnected and then B, who is
\* gone, disconnected.
C10_Witness ==
    /\ lastTick = "ok"
    /\ lastBatch = <<Member("A", "former_patron", Null)>>
    /\ MemberEvents(events) =
           <<Event("canceled", Member("A", "former_patron", Null)),
             Event("disconnected", Member("A", "former_patron", "D1")),
             Event("disconnected", Member("B", "active_patron", "D1"))>>

\* The connected and disconnected events of one member in a log, in order.
LinkageEvents(log, id) ==
    SelectSeq(log, LAMBDA e : e.type \in LinkageEventTypes /\ e.id = id)

\* C11: when a record of the batch carries a linked id and the member's
\* stored linked id is another one, the tick emits disconnected with the
\* stored id and then connected with the new one, and afterwards
\* connectedDiscords maps the member to the new id and disconnectedDiscords
\* has no entry for the member.
C11_AccountSwap ==
    [][TickFinished =>
          \A i \in DOMAIN lastBatch' :
              LET member == lastBatch'[i]
                  previousDiscordId == lastDiscordIds[member.id]
              IN /\ Truthy(previousDiscordId)
                 /\ Truthy(member.discordId)
                 /\ previousDiscordId # member.discordId
                 => /\ LinkageEvents(events', member.id) =
                           <<Event("disconnected",
                                   [member EXCEPT !.discordId = previousDiscordId]),
                             Event("connected", member)>>
                    /\ connectedDiscords'[member.id] = member.discordId
                    /\ disconnectedDiscords'[member.id] = Undefined]_vars

\* C11's case: a tick found A, linked to D1 before, linked to D2.
C11_Witness ==
    /\ lastTick = "ok"
    /\ LinkageEvents(events, "A") =
           <<Event("disconnected", Member("A", "active_patron", "D1")),
             Event("connected", Member("A", "active_patron", "D2"))>>
    /\ connectedDiscords["A"] = "D2"
    /\ disconnectedDiscords["A"] = Undefined

LifecycleEventTypes == {"canceled", "declined", "reactivated", "expired"}

\* The status-change events of one member in a log, in order.
LifecycleEvents(log, id) ==
    SelectSeq(log, LAMBDA e : e.type \in LifecycleEventTypes /\ e.id = id)

\* C12: for a record of the batch whose member has a stored status, a tick
\* emits, when the two statuses differ, canceled for former_patron, declined
\* for declined_patron, reactivated for active_patron after former_patron or
\* declined_patron, expired for none, whatever canceledMembers,
\* declinedMembers and reactivatedMembers hold; and no status-change event
\* when the two statuses are equal.
C12_LifecycleNeverSuppressed ==
    [][TickFinished =>
          \A i \in DOMAIN lastBatch' :
              LET member == lastBatch'[i]
                  previousStatus == MapGet(lastMemberships, member.id)
                  due == IF previousStatus = member.status THEN <<>>
                         ELSE IF member.status = "former_patron"
                         THEN <<Event("canceled", member)>>
                         ELSE IF member.status = "declined_patron"
                         THEN <<Event("declined", member)>>
                         ELSE IF member.status = "none"
                         THEN <<Event("expired", member)>>
                         ELSE IF previousStatus \in {"former_patron", "declined_patron"}
                         THEN <<Event("reactivated", member)>>
                         ELSE <<>>
              IN MapHas(lastMemberships, member.id)
                 => LifecycleEvents(events', member.id) = due]_vars

\* C12's case: a tick told A canceled while declinedMembers still records
\* A's earlier decline.
C12_Witness ==
    /\ lastTick = "ok"
    /\ lastBatch = <<Member("A", "former_patron", Null)>>
    /\ LifecycleEvents(events, "A") =
           <<Event("canceled", Member("A", "former_patron", Null))>>
    /\ "A" \in declinedMembers

\* C13: a member found in the first batch a process obtains from the
\* source gets no subscribed event for it: the first tick that finishes
\* runs with isFirstRun true, and the tick that follows an initial check
\* whose fetch failed, the first one to obtain a batch, emits no subscribed
\* event.
C13_NoSubscribedAtColdStart ==
    [][TickFinished =>
          /\ lastTick = "none" => isFirstRun
          /\ events = <<ErrorEvent, ReadyEvent>> /\ lastBatch = <<>>
             => \A id \in Ids : Count(events', "subscribed", id) = 0]_vars

\* C14: a tick whose fetch failed is not followed by ready: the events of
\* such a tick do not include ready.
C14_NoReadyAfterFailedFetch ==
    [][FetchFailed => \A i \in DOMAIN events' : events'[i] # ReadyEvent]_vars

\* The last tick to end had a failed fetch, reported to the "error" listener.
ErrorReported ==
    lastTick = "ok" /\ events # <<>> /\ events[1] = ErrorEvent

C16_MalformedRecordSkipped ==
    /\ \A i \in DOMAIN events :
           events[i].type \in MemberEventTypes => events[i].id # Undefined
    /\ ~MapHas(lastMemberships, Undefined)
    /\ lastDiscordIds[Undefined] = Undefined
    /\ Undefined \notin subscribedMembers \cup canceledMembers
                            \cup declinedMembers \cup reactivatedMembers
    /\ connectedDiscords[Undefined] = Undefined
    /\ disconnectedDiscords[Undefined] = Undefined

\* The cache file holds the fields as they are now.
InSync == cacheFile = <<CacheData(Fields)>>

\* C17: a save that fails changes nothing but the file's age.  A tick whose
\* save failed (the file is behind the fields after it) has left the file
\* alone, has put its batch into lastMemberships and lastDiscordIds, has
\* emitted its events (subscribed and connected for an unknown member A
\* found linked to D1) and has left every poll timer armed; a flush or a
\* stop() changes no field, failed or not; and every write that changes the
\* file stores the fields as they are at that moment.
C17_FailedSaveHarmless ==
    [][/\ TickFinished /\ ~InSync'
          => /\ cacheFile' = cacheFile
             /\ MapKeySet(lastMemberships') = BatchIds(lastBatch')
             /\ \A i \in DOMAIN lastBatch' :
                    /\ MapGet(lastMemberships', lastBatch'[i].id) = lastBatch'[i].status
                    /\ lastDiscordIds'[lastBatch'[i].id] = lastBatch'[i].discordId
             /\ ( /\ ~isFirstRun
                  /\ lastMemberships = <<>>
                  /\ "A" \notin subscribedMembers
                  /\ connectedDiscords["A"] = Undefined
                  /\ lastBatch' = <<Member("A", "active_patron", "D1")>>
                  => MemberEvents(events') =
                         <<Event("subscribed", Member("A", "active_patron", "D1")),
                           Event("connected", Member("A", "active_patron", "D1"))>> )
             /\ pollTimers \subseteq pollTimers'
       /\ ~TickFinished => persisted' = persisted
       /\ cacheFile' # cacheFile => InSync']_vars

\* C17's case: the save of a tick failed, so the file is behind, and the
\* tick's events were emitted, its batch is in the fields and the poll
\* timer is armed.
C17_Witness ==
    /\ lastTick = "ok"
    /\ ~InSync
    /\ Count(events, "subscribed", "A") = 1
    /\ MapHas(lastMemberships, "A")
    /\ "A" \in subscribedMembers
    /\ pollTimers # {}

\* C18: when a tick ends and when stop() returns, the cache file has been
\* written with the fields as they are at that moment, the events of the
\* tick tracked in them, unless the write failed and the file is as it was.
C18_StoreWrittenAfterTickAndStop ==
    [][TickFinished \/ (stopped' /\ ~stopped)
          => InSync' \/ cacheFile' = cacheFile]_vars

\* C18's case: stop() has returned after a tick that told A subscribed, and
\* the file holds A's subscription.
C18_Witness ==
    /\ stopped
    /\ lastTick = "ok"
    /\ Count(events, "subscribed", "A") = 1
    /\ cacheFile # <<>>
    /\ cacheFile[1].subscribedMembers = {"A"}
    /\ InSync

\* C19: at most one poll timer and at most one flush timer are armed, and
\* an armed timer is the one intervalId or cacheSaveIntervalId refers to.
C19_OneTimerEach ==
    /\ Cardinality(pollTimers) <= 1
    /\ Cardinality(saveTimers) <= 1
    /\ pollTimers \subseteq {intervalId}
    /\ saveTimers \subseteq {cacheSaveIntervalId}

Max(S) == CHOOSE x \in S : \A y \in S : x >= y

\* The last record of a batch linked to d, null if there is none.
LastLinked(batch, d) ==
    LET linked == {i \in DOMAIN batch : batch[i].discordId = d}
    IN IF linked = {} THEN NullMember ELSE batch[Max(linked)]

\* C20 as stated: after a tick that ran to its save, users.get(d) is the
\* last record of the tick's batch whose linked id is d, and null when the
\* batch has no such record.
C20_LookupByLinkedId ==
    lastTick = "ok" =>
        \A d \in LookupKeys : getByDiscordId(d) = LastLinked(lastBatch, d)

\* C20: after a tick that ran to its save, users.get(d) is the last record
\* of the tick's batch whose linked id is d with the blanks around it
\* removed, and null when the batch has no such record; what an earlier
\* tick put into discordToMemberMap is gone.
C20_LookupByTrimmedId ==
    lastTick = "ok" =>
        \A d \in LookupKeys : getByDiscordId(d) = LastLinked(lastBatch, Trim(d))

\* C20's case: a tick found A and B both linked to D1, and the lookup of D1,
\* blanks around it or not, gives B, the later of the two.
C20_Witness ==
    /\ lastTick = "ok"
    /\ lastBatch = <<Member("A", "active_patron", "D1"),
                     Member("B", "active_patron", "D1")>>
    /\ getByDiscordId("D1") = Member("B", "active_patron", "D1")
    /\ getByDiscordId(" D1 ") = Member("B", "active_patron", "D1")
    /\ getByDiscordId("D2") = NullMember

SubscriptionEventTypes == {"subscribed", "canceled", "declined", "expired"}

\* The events of one member in a log that put it into subscribedMembers or
\* take it out, in order.
SubscriptionEvents(log, id) ==
    SelectSeq(log, LAMBDA e : e.type \in SubscriptionEventTypes /\ e.id = id)

\* C21: subscribedMembers, empty at the start, follows the events: after a
\* tick an id is in it when the last subscribed, canceled, declined or
\* expired event of the tick for that id is subscribed, out of it when that
\* event is one of the other three, and where it was when the tick had no
\* such event for the id; and nothing but a tick changes the set.  So an id
\* is in the set exactly when subscribed was emitted for it and no canceled,
\* declined or expired event since.
C21_SubscribedSetFollowsEvents ==
    [][IF TickFinished
       THEN \A id \in Ids :
                LET changes == SubscriptionEvents(events', id)
                IN (id \in subscribedMembers')
                   = IF changes = <<>>
                     THEN id \in subscribedMembers
                     ELSE changes[Len(changes)].type = "subscribed"
       ELSE subscribedMembers' = subscribedMembers]_vars

\* C21's case: A was told subscribed, has since left the campaign without a
\* canceled, declined or expired event, and is still in subscribedMembers.
C21_Witness ==
    /\ lastTick = "ok"
    /\ "A" \in subscribedMembers
    /\ ~MapHas(lastMemberships, "A")
    /\ SubscriptionEvents(events, "A") = <<>>

\* C22: after a tick that ran to its save, for every id, lastDiscordIds
\* holds a Discord id D for it exactly when connectedDiscords holds D for
\* it, and an id with an entry in disconnectedDiscords has no entry or null
\* in lastDiscordIds.  Hence hasProcessedEvent never holds back a linkage
\* event: a record that gains a linked id is told connected and one that
\* loses it is told disconnected.
C22_LinkageMatchesConnected ==
    /\ [](lastTick = "ok" =>
            \A id \in MapKeyDomain :
                /\ \A d \in Discords :
                       lastDiscordIds[id] = d <=> connectedDiscords[id] = d
                /\ disconnectedDiscords[id] # Undefined => ~Truthy(lastDiscordIds[id]))
    /\ [][TickFinished =>
              \A i \in DOMAIN lastBatch' :
                  LET member == lastBatch'[i]
                      previousDiscordId == lastDiscordIds[member.id]
                  IN /\ ~Truthy(previousDiscordId) /\ Truthy(member.discordId)
                        => Count(events', "connected", member.id) = 1
                     /\ Truthy(previousDiscordId) /\ ~Truthy(member.discordId)
                        => Count(events', "disconnected", member.id) = 1]_vars

\* C22's case: a tick found A, linked to D1 before, without a linked id:
\* disconnectedDiscords records D1, connectedDiscords has no entry and
\* lastDiscordIds holds null.
C22_Witness ==
    /\ lastTick = "ok"
    /\ Count(events, "disconnected", "A") = 1
    /\ disconnectedDiscords["A"] = "D1"
    /\ connectedDiscords["A"] = Undefined
    /\ lastDiscordIds["A"] = Null

\* The subscribed and status-change events of one member in a log, in order.
StatusEvents(log, id) ==
    SelectSeq(log, LAMBDA e : e.type \in LifecycleEventTypes \cup {"subscribed"}
                              /\ e.id = id)

\* C23: a tick emits at most one of subscribed, canceled, declined,
\* reactivated and expired for a record of its batch.
C23_OneStatusEventPerRecord ==
    [][TickFinished =>
          \A i \in DOMAIN lastBatch' :
              Len(StatusEvents(events', lastBatch'[i].id)) <= 1]_vars

\* C23's case: a tick found A, a former patron before, active again and
\* told it reactivated and nothing else about its status.
C23_Witness ==
    /\ lastTick = "ok"
    /\ "A" \in BatchIds(lastBatch)
    /\ StatusEvents(events, "A") =
           <<Event("reactivated", Member("A", "active_patron", Null))>>
    /\ "A" \in reactivatedMembers

\* C24: a tick run with isFirstRun true emits no subscribed event, and
\* emits connected once for every record that has a linked id and had none
\* or null before, unless connectedDiscords already holds that linked id for
\* the member.
C24_FirstRunStillConnects ==
    [][TickFinished /\ isFirstRun =>
          \A i \in DOMAIN lastBatch' :
              LET member == lastBatch'[i]
              IN /\ Count(events', "subscribed", member.id) = 0
                 /\ Truthy(member.discordId) /\ ~Truthy(lastDiscordIds[member.id])
                    => Count(events', "connected", member.id)
                           = IF connectedDiscords[member.id] = member.discordId
                             THEN 0 ELSE 1]_vars

\* C24's case: the initial check of a process with empty fields found A and
\* B linked and told each connected, and nobody subscribed.
C24_Witness ==
    /\ lastTick = "ok"
    /\ lastBatch = <<Member("A", "active_patron", "D1"),
                     Member("B", "active_patron", "D1")>>
    /\ events = <<Event("connected", Member("A", "active_patron", "D1")),
                  Event("connected", Member("B", "active_patron", "D1")),
                  ReadyEvent>>

\* This step is the end of a tick, finished or aborted.
TickEnded == Len(inflight') < Len(inflight)

\* The events of a log that reach a listener: super.emit calls the
\* listeners registered for the event at that moment.
Notified(log) ==
    SelectSeq(log, LAMBDA e : IF e.type = "error" THEN errorListener
                                                   ELSE memberListener)

\* C25: once stop() has returned, a tick that was under way and ends
\* afterwards notifies no listener registered before the call, whatever it
\* emits: stop() has removed them all.
C25_NobodyNotifiedAfterStop ==
    [][/\ stopped' /\ ~stopped => ~errorListener' /\ ~memberListener'
       /\ stopped /\ TickEnded => Notified(events') = <<>>]_vars

\* C25's case: stop() came while the fetch of the initial check was under
\* way; the check finished afterwards, emitted connected for A and ready
\* and armed a poll timer, with no listener left.
C25_Witness ==
    /\ stopped
    /\ lastTick = "ok"
    /\ pollTimers # {}
    /\ events = <<Event("connected", Member("A", "active_patron", "D1")), ReadyEvent>>
    /\ ~errorListener
    /\ ~memberListener

=============================================================================
